---- MODULE Spec2Model ----
(***************************************************************************)
(* Model of src/index.js: an Express application that keeps sensor         *)
(* readings in memory.  State: the array sensorData and the object         *)
(* apiStats.  One action per route handler.  Node runs each handler to     *)
(* completion on the event loop, so a handler is one atomic step.          *)
(*                                                                         *)
(* JavaScript values are tagged records:                                   *)
(*   [t |-> "undefined"], [t |-> "null"], [t |-> "NaN"],                   *)
(*   [t |-> "number", m |-> mantissa, e |-> decimals]   (m * 10^-e),        *)
(*   [t |-> "string", str |-> sequence of characters],                     *)
(*   [t |-> "object", callableToString |-> BOOLEAN].                       *)
(* A string is a sequence of one-character strings, except that the keys   *)
(* "temp=" and "hum=" of a text body, and the parts of a header value, are *)
(* one token each.                                                         *)
(***************************************************************************)
EXTENDS Integers, Sequences, FiniteSets, TLC

VARIABLES
  sensorData,   \* index.js:16, newest entry first
  apiStats,     \* index.js:17-21
  now,          \* the wall clock read by new Date() / Date.now()
  req,          \* the request handled last
  res,          \* the response sent last
  log,          \* history variable: every entry ever inserted, in arrival order
  script        \* history variable: position in the workload of SpecBurst

vars == <<sensorData, apiStats, now, req, res, log, script>>

----------------------------------------------------------------------------
(* Bounds of the model *)

MaxRequests == 2     \* Spec: state-changing requests per behaviour
MaxBurst == 105      \* SpecBurst: state-changing requests per behaviour
MaxHead == 2         \* SpecBurst: freely chosen requests before the burst
MaxTail == 3         \* SpecBurst: freely chosen requests after the burst

(* Program constants *)

Cap == 100           \* index.js:70-71
DashboardRows == 10  \* index.js:168

----------------------------------------------------------------------------
(* JavaScript values *)

Undefined == [t |-> "undefined"]
Null == [t |-> "null"]
NaN == [t |-> "NaN"]
Num(m, e) == [t |-> "number", m |-> m, e |-> e]
Str(s) == [t |-> "string", str |-> s]
Obj(c) == [t |-> "object", callableToString |-> c]
Zero == Num(0, 0)

Min(a, b) == IF a < b THEN a ELSE b

Digit == {"0", "1", "2", "3", "4", "5", "6", "7", "8", "9"}

DigitVal(c) ==
  CASE c = "0" -> 0 [] c = "1" -> 1 [] c = "2" -> 2 [] c = "3" -> 3
    [] c = "4" -> 4 [] c = "5" -> 5 [] c = "6" -> 6 [] c = "7" -> 7
    [] c = "8" -> 8 [] c = "9" -> 9

\* Length of the longest prefix of s[from..] made of characters of set S.
RECURSIVE Run(_, _, _)
Run(s, from, S) ==
  IF from <= Len(s) /\ s[from] \in S THEN 1 + Run(s, from + 1, S) ELSE 0

\* The decimal digits s[from..from+n-1] read as a natural number.
RECURSIVE Digits(_, _, _)
Digits(s, from, n) ==
  IF n = 0 THEN 0 ELSE 10 * Digits(s, from, n - 1) + DigitVal(s[from + n - 1])

RECURSIVE Pow10(_)
Pow10(n) == IF n = 0 THEN 1 ELSE 10 * Pow10(n - 1)

\* A number m * 10^-e with the trailing zeros of the fraction dropped, so that
\* equal numbers are equal records.
RECURSIVE Normal(_, _)
Normal(m, e) ==
  IF e > 0 /\ m % 10 = 0 THEN Normal(m \div 10, e - 1) ELSE Num(m, e)

\* parseFloat on a string (ECMAScript 19.2.4): skip leading white space, read
\* the longest prefix that is a decimal literal, NaN when there is none.  The
\* strings of this model hold no exponent part and no "Infinity".
parseFloatString(s) ==
  LET ws == Run(s, 1, {" "})
      sg == IF ws + 1 <= Len(s) /\ s[ws + 1] \in {"+", "-"} THEN 1 ELSE 0
      neg == sg = 1 /\ s[ws + 1] = "-"
      i0 == ws + sg + 1
      ni == Run(s, i0, Digit)
      dot == i0 + ni <= Len(s) /\ s[i0 + ni] = "."
      nf == IF dot THEN Run(s, i0 + ni + 1, Digit) ELSE 0
      mag == Digits(s, i0, ni) * Pow10(nf) + Digits(s, i0 + ni + 1, nf)
  IN IF ni = 0 /\ nf = 0 THEN NaN
     ELSE Normal(IF neg THEN 0 - mag ELSE mag, nf)

Threw == [t |-> "TypeError"]

\* parseFloat(v): ToString(v) first.  ToString of an object calls its
\* toString; when that property is not callable and valueOf returns the
\* object itself, OrdinaryToPrimitive throws a TypeError.  A plain object
\* gives "[object Object]", null gives "null", undefined "undefined": NaN.
parseFloat(v) ==
  CASE v.t = "string" -> parseFloatString(v.str)
    [] v.t = "number" -> v
    [] v.t = "object" -> IF v.callableToString THEN NaN ELSE Threw
    [] OTHER -> NaN

\* x || 0 for a number x: NaN and 0 are falsy.
OrZero(x) == IF x = NaN \/ (x.t = "number" /\ x.m = 0) THEN Zero ELSE x

----------------------------------------------------------------------------
(* Requests *)

PostRoute == "POST /api/data"
SimpleRoute == "GET /api/simple"
DataRoute == "GET /api/data"
TestRoute == "GET /api/test"
HealthRoute == "GET /api/health"
DashboardRoute == "GET /dashboard"
RootRoute == "GET /"

\* An object with own enumerable properties, as body-parser or JSON.parse
\* builds it.
ObjP(props) == [t |-> "object", callableToString |-> TRUE, props |-> props]

\* v[k] for a property key k: undefined unless v is an object that has it.
Prop(v, k) ==
  IF v.t = "object" /\ "props" \in DOMAIN v /\ k \in DOMAIN v.props
  THEN v.props[k] ELSE Undefined

\* s.includes(part), at the granularity of the tokens of a header value.
Includes(s, part) == \E i \in DOMAIN s : s[i] = part

\* String(v) for a request body: the text itself, or "[object Object]".
StringOf(v) == IF v.t = "string" THEN v.str ELSE <<"[object Object]">>

DigitOrDot == Digit \cup {"."}

\* bodyString.match(/key([\d.]+)/): the capture group of the leftmost match
\* (greedy), or Null when the pattern matches nowhere.
Match(s, key) ==
  LET hits == {i \in DOMAIN s : s[i] = key /\ Run(s, i + 1, DigitOrDot) > 0}
  IN IF hits = {} THEN Null
     ELSE LET i == CHOOSE j \in hits : \A k \in hits : j <= k
          IN Str(SubSeq(s, i + 1, i + Run(s, i + 1, DigitOrDot)))

\* index.js:42-43, 46-47: parseFloat(req.body.temp) || 0
FieldOrZero(body, key) ==
  LET x == parseFloat(Prop(body, key))
  IN IF x = Threw THEN Threw ELSE OrZero(x)

\* index.js:54-55: tempMatch ? parseFloat(tempMatch[1]) : 0
MatchOrZero(text, key) ==
  LET m == Match(text, key)
  IN IF m = Null THEN Zero ELSE parseFloat(m)

\* index.js:38: req.headers['content-type'] || ''
ContentType(r) == IF r.contentType.t = "string" THEN r.contentType.str ELSE <<>>

\* index.js:38-56: the pair the try block computes, or Threw when one of the
\* conversions throws.
Parse(r) ==
  LET ct == ContentType(r)
      temperature ==
        IF Includes(ct, "application/x-www-form-urlencoded")
        THEN FieldOrZero(r.body, "temp")
        ELSE IF Includes(ct, "application/json")
        THEN FieldOrZero(r.body, "temp")
        ELSE MatchOrZero(StringOf(r.body), "temp=")
      humidity ==
        IF Includes(ct, "application/x-www-form-urlencoded")
        THEN FieldOrZero(r.body, "hum")
        ELSE IF Includes(ct, "application/json")
        THEN FieldOrZero(r.body, "hum")
        ELSE MatchOrZero(StringOf(r.body), "hum=")
  IN IF temperature = Threw \/ humidity = Threw THEN Threw
     ELSE [t |-> "parsed", temperature |-> temperature, humidity |-> humidity]

\* new Date().toISOString() at clock value ms
Iso(ms) == [t |-> "isostring", ms |-> ms]

\* index.js:59-66
DataEntry(r, parsed, ms) ==
  [id |-> ms,
   timestamp |-> Iso(ms),
   temperature |-> parsed.temperature,
   humidity |-> parsed.humidity,
   receivedAt |-> ms,
   client |-> IF r.userAgent.t = "string" /\ r.userAgent.str # <<>>
              THEN r.userAgent ELSE Str(<<"Unknown">>)]

\* Mutant: slice(-100) for slice(0, 100), which keeps the oldest entries.
StoreKeepsOldest(data, entry) ==
  LET grown == <<entry>> \o data
  IN IF Len(grown) > Cap
     THEN SubSeq(grown, Len(grown) - Cap + 1, Len(grown)) ELSE grown

\* Mutant: the length test made before the unshift instead of after it.
StoreCapsBeforeInsert(data, entry) ==
  IF Len(data) > Cap THEN <<entry>> \o SubSeq(data, 1, Cap) ELSE <<entry>> \o data

\* index.js:69-72: unshift, then keep the first Cap entries
Store(data, entry) ==
  LET grown == <<entry>> \o data
  IN IF Len(grown) > Cap THEN SubSeq(grown, 1, Cap) ELSE grown

\* Mutant: the increment of totalRequests left out.
ReceivedUncounted(stats, ms) == [stats EXCEPT !.lastRequest = Iso(ms)]

\* index.js:27-28
Received(stats, ms) ==
  [stats EXCEPT !.totalRequests = @ + 1, !.lastRequest = Iso(ms)]

\* index.js:74
Succeeded(stats) == [stats EXCEPT !.successfulPosts = @ + 1]

\* index.js:79-85
SuccessResponse(entry, data) ==
  [route |-> PostRoute, status |-> 200,
   body |-> [success |-> TRUE, message |-> "Data received successfully",
             data |-> entry, count |-> Len(data),
             server |-> "Node.js API on Render"]]

\* index.js:89-93
FailureResponse ==
  [route |-> PostRoute, status |-> 400,
   body |-> [success |-> FALSE, error |-> "TypeError",
             help |-> "Send data as: temp=25.5&hum=60.0"]]

\* index.js:26-95.  dt is the time since the clock was last read.
PostData(r, dt) ==
  LET ms == now + dt
      counted == Received(apiStats, ms)
      parsed == Parse(r)
  IN /\ now' = ms
     /\ req' = r
     /\ IF parsed = Threw
        THEN /\ apiStats' = counted
             /\ res' = FailureResponse
             /\ UNCHANGED <<sensorData, log>>
        ELSE LET entry == DataEntry(r, parsed, ms)
                 stored == Store(sensorData, entry)
             IN /\ sensorData' = stored
                /\ log' = Append(log, entry)
                /\ apiStats' = Succeeded(counted)
                /\ res' = SuccessResponse(entry, stored)

\* index.js:127-128: req.query.temp || '0'
QueryOrDefault(v) ==
  IF v.t = "undefined" \/ (v.t = "string" /\ v.str = <<>>) THEN Str(<<"0">>) ELSE v

\* index.js:130-135
SimpleEntry(q, ms) ==
  [timestamp |-> Iso(ms),
   temperature |-> QueryOrDefault(q.temp),
   humidity |-> QueryOrDefault(q.hum),
   method |-> "GET"]

\* Mutant: GET /api/simple applying the cap of the POST path.
UnshiftCapped(data, entry) == SubSeq(<<entry>> \o data, 1, Min(Cap, Len(data) + 1))

\* Mutant: push for unshift.
Push(data, entry) == Append(data, entry)

\* index.js:137
Unshift(data, entry) == <<entry>> \o data

\* index.js:126-143
GetSimple(q, dt) ==
  LET ms == now + dt
      entry == SimpleEntry(q, ms)
  IN /\ now' = ms
     /\ req' = [route |-> SimpleRoute, query |-> q]
     /\ sensorData' = Unshift(sensorData, entry)
     /\ log' = Append(log, entry)
     /\ res' = [route |-> SimpleRoute, status |-> 200,
                body |-> [received |-> TRUE, data |-> entry]]
     /\ UNCHANGED apiStats

\* Mutant: GET /api/data counted as a request.
GetDataCounted ==
  /\ req' = [route |-> DataRoute]
  /\ apiStats' = [apiStats EXCEPT !.totalRequests = @ + 1]
  /\ res' = [route |-> DataRoute, status |-> 200,
             body |-> [success |-> TRUE, count |-> Len(sensorData),
                       data |-> sensorData, stats |-> apiStats']]
  /\ UNCHANGED <<sensorData, now, log>>

\* index.js:98-105
GetData ==
  /\ req' = [route |-> DataRoute]
  /\ res' = [route |-> DataRoute, status |-> 200,
             body |-> [success |-> TRUE, count |-> Len(sensorData),
                       data |-> sensorData, stats |-> apiStats]]
  /\ UNCHANGED <<sensorData, apiStats, now, log>>

\* index.js:108-111
GetTest ==
  /\ req' = [route |-> TestRoute]
  /\ res' = [route |-> TestRoute, status |-> 200,
             body |-> "OK - Node.js API is working!"]
  /\ UNCHANGED <<sensorData, apiStats, now, log>>

\* index.js:114-123 (runtime, uptime and memory are the host's, not modelled)
GetHealth ==
  /\ req' = [route |-> HealthRoute]
  /\ res' = [route |-> HealthRoute, status |-> 200,
             body |-> [status |-> "online", server |-> "Arduino Sensor API",
                       requests |-> apiStats]]
  /\ UNCHANGED <<sensorData, apiStats, now, log>>

\* index.js:169-172: one data-card
Card(item) ==
  [time |-> item.timestamp, temp |-> item.temperature, hum |-> item.humidity]

\* Mutant: slice(-10) for slice(0, 10).
SliceOldest(data) ==
  SubSeq(data, Len(data) - Min(DashboardRows, Len(data)) + 1, Len(data))

\* index.js:168: sensorData.slice(0, 10)
Slice(data) == SubSeq(data, 1, Min(DashboardRows, Len(data)))

\* index.js:166-174: the figure and the cards of the page
Page(data) ==
  [total |-> Len(data),
   cards |-> [i \in DOMAIN Slice(data) |-> Card(Slice(data)[i])]]

\* index.js:146-182
GetDashboard ==
  /\ req' = [route |-> DashboardRoute]
  /\ res' = [route |-> DashboardRoute, status |-> 200, body |-> Page(sensorData)]
  /\ UNCHANGED <<sensorData, apiStats, now, log>>

\* index.js:185-198
GetRoot ==
  /\ req' = [route |-> RootRoute]
  /\ res' = [route |-> RootRoute, status |-> 200,
             body |-> [message |-> "Arduino Sensor API",
                       note |-> "Send sensor data as: temp=25.5&hum=60.0"]]
  /\ UNCHANGED <<sensorData, apiStats, now, log>>

----------------------------------------------------------------------------
(* The requests the environment sends *)

Form == Str(<<"application/x-www-form-urlencoded">>)
Json == Str(<<"application/json", "; charset=utf-8">>)
Text == Str(<<"text/plain">>)
Arduino == Str(<<"Arduino">>)

S255 == Str(<<"2", "5", ".", "5">>)
S600 == Str(<<"6", "0", ".", "0">>)
Sabc == Str(<<"a", "b", "c">>)
S12a == Str(<<"1", "2", "a">>)
Empty == Str(<<>>)

Post(ct, ua, body) ==
  [route |-> PostRoute, contentType |-> ct, userAgent |-> ua, body |-> body]

TempHum(x, y) == ObjP([k \in {"temp", "hum"} |-> IF k = "temp" THEN x ELSE y])
TempOnly(x) == ObjP([k \in {"temp"} |-> x])
HumOnly(y) == ObjP([k \in {"hum"} |-> y])
NoField == ObjP(<<>>)

\* temp=25.5&hum=60.0
TextGood ==
  Str(<<"temp=", "2", "5", ".", "5", "&", "hum=", "6", "0", ".", "0">>)
\* temp=.&hum=5
TextDot == Str(<<"temp=", ".", "&", "hum=", "5">>)
\* hum=60
TextHumOnly == Str(<<"hum=", "6", "0">>)
\* temp=abc&hum=60
TextGarbage == Str(<<"temp=", "a", "b", "c", "&", "hum=", "6", "0">>)
\* temp=1.2.3
TextTwoDots == Str(<<"temp=", "1", ".", "2", ".", "3">>)

FormRequests ==
  { Post(Form, Arduino, TempHum(S255, S600)),    \* temp=25.5&hum=60.0
    Post(Form, Arduino, TempHum(Sabc, S600)),    \* temp=abc&hum=60.0
    Post(Form, Undefined, TempHum(S12a, Empty)), \* temp=12a&hum=
    Post(Form, Arduino, HumOnly(S600)),          \* hum=60.0
    Post(Form, Undefined, NoField) }             \* empty body

JsonRequests ==
  { Post(Json, Arduino, TempHum(Num(255, 1), Num(60, 0))),  \* {"temp":25.5,"hum":60}
    Post(Json, Arduino, TempOnly(S600)),                    \* {"temp":"60.0"}
    Post(Json, Undefined, TempHum(Null, Num(0, 0))),        \* {"temp":null,"hum":0}
    Post(Json, Arduino, TempHum(Obj(TRUE), Num(60, 0))),    \* {"temp":{},"hum":60}
    Post(Json, Arduino, TempHum(Obj(FALSE), Num(60, 0))),   \* {"temp":{"toString":1},"hum":60}
    Post(Json, Empty, HumOnly(Obj(FALSE))) }                \* {"hum":{"toString":1}}

TextRequests ==
  { Post(Text, Arduino, TextGood),
    Post(Text, Arduino, TextDot),
    Post(Text, Undefined, TextHumOnly),
    Post(Text, Arduino, TextGarbage),
    Post(Text, Arduino, TextTwoDots),
    Post(Undefined, Arduino, NoField) }          \* no content type: body is {}

PostRequests == FormRequests \cup JsonRequests \cup TextRequests

Query(x, y) == [temp |-> x, hum |-> y]
S12 == Str(<<"1", "2">>)
S34 == Str(<<"3", "4">>)

Queries ==
  { Query(S12, S34),              \* ?temp=12&hum=34
    Query(Undefined, Undefined),  \* no parameter
    Query(Empty, S34),            \* ?temp=&hum=34
    Query(Sabc, Undefined) }      \* ?temp=abc

Delays == {0, 1}

----------------------------------------------------------------------------
(* Spec: every endpoint, every request above, MaxRequests state-changing      *)
(* requests per behaviour.                                                    *)

Init ==
  /\ sensorData = <<>>
  /\ apiStats = [totalRequests |-> 0, successfulPosts |-> 0, lastRequest |-> Null]
  /\ now = 0
  /\ req = [route |-> "none"]
  /\ res = [route |-> "none", status |-> 0]
  /\ log = <<>>
  /\ script = [burst |-> "none", tail |-> 0]

Sent == apiStats.totalRequests + (Len(log) - apiStats.successfulPosts)

DoPost ==
  /\ Sent < MaxRequests
  /\ \E r \in PostRequests, dt \in Delays : PostData(r, dt)
  /\ UNCHANGED script

DoSimple ==
  /\ Sent < MaxRequests
  /\ \E q \in Queries, dt \in Delays : GetSimple(q, dt)
  /\ UNCHANGED script

DoData == GetData /\ UNCHANGED script
DoTest == GetTest /\ UNCHANGED script
DoHealth == GetHealth /\ UNCHANGED script
DoDashboard == GetDashboard /\ UNCHANGED script
DoRoot == GetRoot /\ UNCHANGED script

Next ==
  \/ DoPost
  \/ DoSimple
  \/ DoData
  \/ DoTest
  \/ DoHealth
  \/ DoDashboard
  \/ DoRoot

Spec == Init /\ [][Next]_vars

----------------------------------------------------------------------------
(* SpecBurst: long workloads.  A behaviour is MaxHead freely chosen          *)
(* state-changing requests, then a burst of requests to one of the two       *)
(* state-changing endpoints, then MaxTail freely chosen ones, MaxBurst in    *)
(* all, one clock tick apart.  The k-th request carries the k-th payload of  *)
(* a fixed cycle, so payloads vary along a behaviour without branching it.   *)

PostScript ==
  << Post(Text, Arduino, TextGood),
     Post(Json, Arduino, TempHum(Num(255, 1), Num(60, 0))),
     Post(Form, Undefined, TempHum(Sabc, S600)),
     Post(Text, Arduino, TextDot) >>

SimpleScript ==
  << Query(S12, S34), Query(Undefined, Undefined), Query(Empty, S34) >>

Cycle(seq, k) == seq[(k % Len(seq)) + 1]

\* Whether the workload allows a request to endpoint kind next.
CanSend(kind) ==
  /\ now < MaxBurst
  /\ \/ now < MaxHead
     \/ script.burst = "none"
     \/ script.burst = kind /\ script.tail = 0
     \/ script.tail < MaxTail

Advance(kind) ==
  IF now < MaxHead THEN script
  ELSE IF script.burst = "none" THEN [script EXCEPT !.burst = kind]
  ELSE IF script.burst = kind /\ script.tail = 0 THEN script
  ELSE [script EXCEPT !.tail = @ + 1]

BurstPost ==
  /\ CanSend("post")
  /\ PostData(Cycle(PostScript, now), 1)
  /\ script' = Advance("post")

BurstSimple ==
  /\ CanSend("simple")
  /\ GetSimple(Cycle(SimpleScript, now), 1)
  /\ script' = Advance("simple")

BurstDashboard == GetDashboard /\ UNCHANGED script

NextBurst ==
  \/ BurstPost
  \/ BurstSimple
  \/ BurstDashboard

SpecBurst == Init /\ [][NextBurst]_vars

----------------------------------------------------------------------------
(* Properties *)

IsPostEntry(e) == "id" \in DOMAIN e
IsSimpleEntry(e) == "method" \in DOMAIN e

\* The k entries inserted last, newest first.
MostRecent(lg, k) == [i \in 1..k |-> lg[Len(lg) - i + 1]]

OnlyPosts == \A i \in DOMAIN log : IsPostEntry(log[i])

PostSucceeded(r) == r.route = PostRoute /\ r.status = 200
PostFailed(r) == r.route = PostRoute /\ r.status = 400

\* C1: in every reachable state the History holds at most 100 entries.
C1_HistoryAtMostCap == Len(sensorData) <= Cap

\* C2: after n POSTs to /api/data, all successful, and no other insertion, the
\* History has min(n, 100) entries and is exactly the min(n, 100) Readings
\* posted last, newest first (after 105 POSTs: the last 100, the first 5 gone).
C2_PostOnlyHistory ==
  (OnlyPosts /\ apiStats.successfulPosts = apiStats.totalRequests) =>
    LET n == apiStats.totalRequests
    IN /\ Len(log) = n
       /\ Len(sensorData) = Min(n, Cap)
       /\ sensorData = MostRecent(log, Min(n, Cap))

C2_Witness ==
  /\ OnlyPosts
  /\ apiStats.totalRequests = 105
  /\ Len(sensorData) = 100
  /\ sensorData[100] = log[6]
  /\ sensorData[1] = log[105]


\* The value a POST gives for a field, before any conversion: the property of
\* the parsed body (form, JSON) or the text the pattern captures (raw text);
\* undefined or null when the request does not give the field.
Given(r, key) ==
  LET ct == ContentType(r)
  IN IF Includes(ct, "application/x-www-form-urlencoded")
          \/ Includes(ct, "application/json")
     THEN Prop(r.body, key)
     ELSE Match(StringOf(r.body), key \o "=")

NotANumber(v) == parseFloat(v) \in {NaN, Threw}

\* C3: after a POST to /api/data in any of the three encodings, a temp or hum
\* field that is absent or does not parse as a floating-point number is stored
\* as exactly 0, and the request is answered with success.
C3_BadFieldStoredAsZero ==
  res.route = PostRoute =>
    /\ NotANumber(Given(req, "temp")) =>
         PostSucceeded(res) /\ res.body.data.temperature = Zero
    /\ NotANumber(Given(req, "hum")) =>
         PostSucceeded(res) /\ res.body.data.humidity = Zero

WellFormedHeaders(r) ==
  /\ r.contentType.t \in {"string", "undefined"}
  /\ r.userAgent.t \in {"string", "undefined"}

\* C5: a POST answered with the failure response has inserted nothing and has
\* not counted a success: only totalRequests (plus one) and lastRequest differ
\* from the state before; and a request whose only defect is its numeric data
\* is never answered with the failure response.
C5_FailureLeavesHistory ==
  [][ PostFailed(res') =>
        /\ sensorData' = sensorData
        /\ apiStats'.successfulPosts = apiStats.successfulPosts
        /\ apiStats'.totalRequests = apiStats.totalRequests + 1
        /\ ~WellFormedHeaders(req') ]_vars


\* Which parameter values the claim expects "0" to be stored for.
Absent(v) == v = Undefined
AbsentOrEmpty(v) == v = Undefined \/ v = Str(<<>>)

\* The entry the claim expects of GET /api/simple for query q at clock ms;
\* emptyToo tells whether an empty parameter is expected to be stored as "0".
ExpectedSimpleEntry(q, ms, emptyToo) ==
  LET defaulted(v) == IF emptyToo THEN AbsentOrEmpty(v) ELSE Absent(v)
  IN [timestamp |-> Iso(ms),
      temperature |-> IF defaulted(q.temp) THEN Str(<<"0">>) ELSE q.temp,
      humidity |-> IF defaulted(q.hum) THEN Str(<<"0">>) ELSE q.hum,
      method |-> "GET"]

\* C6 as stated: every GET /api/simple puts exactly one entry {timestamp,
\* temperature, humidity, method: 'GET'} at the front of the History, the two
\* values being the query strings as received ("0" when the parameter is
\* absent), and removes nothing, whatever the prior length.
C6_SimpleStoresAsReceived ==
  [][ res'.route = SimpleRoute =>
        sensorData' =
          <<ExpectedSimpleEntry(req'.query, now', FALSE)>> \o sensorData ]_vars

\* C6 amended: the same, with "0" stored when the parameter is absent or is the
\* empty string.
C6_SimpleInsertsUncapped ==
  [][ res'.route = SimpleRoute =>
        /\ sensorData' =
             <<ExpectedSimpleEntry(req'.query, now', TRUE)>> \o sensorData
        /\ Len(sensorData') = Len(sensorData) + 1
        /\ res'.body.data = sensorData'[1] ]_vars

C6_Witness ==
  /\ res.route = SimpleRoute
  /\ req.query.temp = Str(<<>>)
  /\ sensorData[1].temperature = Str(<<"0">>)
  /\ Len(sensorData) > Cap + 1

ReadRoutes == {DataRoute, TestRoute, HealthRoute, DashboardRoute, RootRoute}

\* C7 as stated: handling GET /api/data, /api/test, /api/health, /api/simple,
\* /dashboard or / leaves the History and the three Counters unchanged.
C7_GetsOnlyRead ==
  [][ res'.route \in ReadRoutes \cup {SimpleRoute} =>
        UNCHANGED <<sensorData, apiStats>> ]_vars

\* C7 amended: GET /api/data, /api/test, /api/health, /dashboard and / leave the
\* History and the three Counters unchanged; GET /api/simple leaves the three
\* Counters unchanged and puts one entry in front of the History.
C7_ReadsOnlyRead ==
  [][ /\ res'.route \in ReadRoutes => UNCHANGED <<sensorData, apiStats>>
      /\ res'.route = SimpleRoute =>
           /\ UNCHANGED apiStats
           /\ Len(sensorData') = Len(sensorData) + 1
           /\ SubSeq(sensorData', 2, Len(sensorData')) = sensorData ]_vars

C7_Witness ==
  /\ res.route = HealthRoute
  /\ res.body.requests = apiStats
  /\ apiStats.totalRequests = 1
  /\ Len(sensorData) = 2
  /\ IsSimpleEntry(sensorData[1])

\* C8: the dashboard page holds min(10, History length) cards, the card at
\* position i is made from the i-th entry of the History, and the 'Total
\* readings' figure is the History length.
C8_DashboardShowsNewestTen ==
  res.route = DashboardRoute =>
    /\ res.body.total = Len(sensorData)
    /\ Len(res.body.cards) = Min(DashboardRows, Len(sensorData))
    /\ \A i \in 1..Len(res.body.cards) :
         /\ res.body.cards[i].time = sensorData[i].timestamp
         /\ res.body.cards[i].temp = sensorData[i].temperature
         /\ res.body.cards[i].hum = sensorData[i].humidity

C8_Witness ==
  /\ res.route = DashboardRoute
  /\ Len(sensorData) = Cap
  /\ Len(res.body.cards) = DashboardRows
  /\ res.body.cards[DashboardRows].time # sensorData[DashboardRows + 1].timestamp

\* C9: a successful POST from a History of length L leaves one of length
\* min(L + 1, 100): the new Reading, then the first min(L, 99) entries of the
\* prior History in their order; the response's count is the new length and its
\* data is the entry now at the front.
C9_PostInsertsAndCaps ==
  [][ PostSucceeded(res') =>
        LET L == Len(sensorData)
        IN /\ Len(sensorData') = Min(L + 1, Cap)
           /\ sensorData'[1] = log'[Len(log')]
           /\ IsPostEntry(sensorData'[1])
           /\ SubSeq(sensorData', 2, Len(sensorData')) =
                SubSeq(sensorData, 1, Min(L, Cap - 1))
           /\ res'.body.count = Len(sensorData')
           /\ res'.body.data = sensorData'[1] ]_vars

\* A successful POST has just been handled from a History of more than 100
\* entries, all of them put there by GET /api/simple.
C9_Witness ==
  /\ PostSucceeded(res)
  /\ Len(log) > Cap + 2
  /\ \A i \in 1..(Len(log) - 1) : IsSimpleEntry(log[i])
  /\ Len(sensorData) = Cap

\* C10: the History is always the most recently inserted entries, newest
\* first, without a gap: with e1..ek the entries ever inserted, it is
\* [ek, ..., e(k-len+1)]; and entries leave it only during a POST whose
\* insertion brings the length above 100.
C10_HistoryIsRecentPrefix ==
  [][ /\ sensorData' = MostRecent(log', Len(sensorData'))
      /\ Len(log') - Len(sensorData') > Len(log) - Len(sensorData) =>
           /\ res'.route = PostRoute
           /\ Len(sensorData) + 1 > Cap ]_vars

C10_Witness ==
  /\ Len(log) > Len(sensorData) + 1
  /\ \E i \in DOMAIN sensorData : IsSimpleEntry(sensorData[i])
  /\ \E i \in DOMAIN sensorData : IsPostEntry(sensorData[i])
  /\ IsPostEntry(log[1])
  /\ IsSimpleEntry(log[2])

====
